---- MODULE Spec2Model ----
(***************************************************************************)
(* Model of P1-arithmetic-expression-target.cpp: the expression tree       *)
(* (NumberNode / OperatorNode), the enumerator generateExpressions, the    *)
(* filtering overload and the driver findExpressions.                      *)
(*                                                                         *)
(* The free store is a sequence of node records; a pointer is an index     *)
(* into it.  Strings are sequences of one-character strings.  Indices of   *)
(* nums are 0-based as in the source (nums[k] is NumsAt(nums, k, g)).      *)
(***************************************************************************)
EXTENDS Integers, Sequences, FiniteSets

VARIABLES nums, target, callee, start, end, heap, alive, freed,
          expressions, idx, result, pc

vars == <<nums, target, callee, start, end, heap, alive, freed,
          expressions, idx, result, pc>>

(***************************************************************************)
(* Bounds of the model and the inputs drawn in Init.                       *)
(***************************************************************************)
MaxLen == 3

Vals == {0, 2}

INT_MAX == 2147483647

INT_MIN == (-INT_MAX) - 1

RECURSIVE SeqsOfLen(_, _)
SeqsOfLen(S, n) ==
    IF n = 0 THEN {<<>>}
    ELSE {Append(s, v) : s \in SeqsOfLen(S, n - 1), v \in S}

Scenarios ==
    {<<2, 3, 4>>, <<5, 0>>, <<1, 1>>, <<-1, 2>>, <<20>>, <<-13>>, <<INT_MIN, -1>>,
     <<1, 2, 3, 4>>}

Inputs == UNION {SeqsOfLen(Vals, n) : n \in 0..MaxLen} \cup Scenarios

Targets == {2, 20, INT_MAX}

\* values an out-of-bounds read of nums may yield
Garbage == {0, 7}

\* start / end arguments tried on a direct call of generateExpressions
Indices == (-1)..MaxLen

\* longest range with start <= end tried that reaches outside the vector
MaxOutside == 2

(***************************************************************************)
(* int arithmetic: 32 bits, two's complement.  Signed overflow is          *)
(* undefined behaviour; the value carried along with the ub flag is the    *)
(* wrapped one.                                                            *)
(***************************************************************************)
AddOverflows(a, b) ==
    \/ b > 0 /\ a > INT_MAX - b
    \/ b < 0 /\ a < INT_MIN - b

WrapAdd(a, b) ==
    IF b > 0 /\ a > INT_MAX - b THEN (a - INT_MAX - 1) + (b - INT_MAX - 1)
    ELSE IF b < 0 /\ a < INT_MIN - b THEN (a + INT_MAX + 1) + (b + INT_MAX + 1)
    ELSE a + b

SubOverflows(a, b) ==
    \/ b < 0 /\ a > INT_MAX + b
    \/ b > 0 /\ a < INT_MIN + b

WrapSub(a, b) ==
    IF b < 0 /\ a > INT_MAX + b THEN (a - INT_MAX - 1) - (b + INT_MAX + 1)
    ELSE IF b > 0 /\ a < INT_MIN + b THEN (a + INT_MAX + 1) - (b - INT_MAX - 1)
    ELSE a - b

\* C++ integer division truncates toward zero (b # 0, not INT_MIN / -1)
RECURSIVE TruncDiv(_, _)
TruncDiv(a, b) ==
    IF b > 0
    THEN LET f == a \div b
         IN  IF a < 0 /\ a % b # 0 THEN f + 1 ELSE f
    ELSE IF b = INT_MIN THEN (IF a = INT_MIN THEN 1 ELSE 0)
    ELSE -TruncDiv(a, -b)

MulOverflows(a, b) ==
    IF a = 0 \/ b = 0 THEN FALSE
    ELSE IF a > 0 /\ b > 0 THEN a > TruncDiv(INT_MAX, b)
    ELSE IF a > 0 /\ b < 0 THEN b < TruncDiv(INT_MIN, a)
    ELSE IF a < 0 /\ b > 0 THEN a < TruncDiv(INT_MIN, b)
    ELSE a = INT_MIN \/ b = INT_MIN \/ (-a) > TruncDiv(INT_MAX, -b)

\* the low 32 bits of a * b as an int, from the 16-bit halves of a and b:
\* a * b = ah*bh*2^32 + (ah*bl + al*bh)*2^16 + al*bl
WrapMul(a, b) ==
    IF ~MulOverflows(a, b) THEN a * b
    ELSE LET al == a % 65536
             ah == a \div 65536
             bl == b % 65536
             bh == b \div 65536
             m == (((ah * bl) % 65536) + ((al * bh) % 65536)) % 65536
             hi == IF m >= 32768 THEN (m - 65536) * 65536 ELSE m * 65536
             x == al * (bl \div 256)
             mid == IF x >= 8388608 THEN (x - 16777216) * 256 ELSE x * 256
             lo == al * (bl % 256)
         IN  WrapAdd(WrapAdd(hi, mid), lo)

(***************************************************************************)
(* Characters and strings.                                                 *)
(***************************************************************************)
DigitChars == <<"0", "1", "2", "3", "4", "5", "6", "7", "8", "9">>

\* digits of n <= 0, most significant first (n = 0 gives the empty string)
RECURSIVE NegDigits(_)
NegDigits(n) ==
    IF n = 0 THEN <<>>
    ELSE LET d == (10 - (n % 10)) % 10
         IN  Append(NegDigits((n + d) \div 10), DigitChars[d + 1])

\* std::to_string(int)
to_string(value) ==
    IF value = 0 THEN <<"0">>
    ELSE IF value < 0 THEN <<"-">> \o NegDigits(value)
    ELSE NegDigits(-value)

(***************************************************************************)
(* The expression tree.                                                    *)
(***************************************************************************)
\* mutants of OPERATORS: two operators exchanged; the last one left out
OPERATORS_Reordered == <<"+", "*", "-", "/">>

OPERATORS_Short == <<"+", "-", "*">>

OPERATORS == <<"+", "-", "*", "/">>

NumberNode(value) ==
    [kind |-> "number", value |-> value, oper |-> " ", left |-> 0, right |-> 0]

OperatorNode(oper, left, right) ==
    [kind |-> "operator", value |-> 0, oper |-> oper, left |-> left, right |-> right]

\* new: the node is placed at a fresh address
New(h, node) == [heap |-> Append(h, node), ptr |-> Len(h) + 1]

NoValue == [val |-> 0, ub |-> FALSE, threw |-> TRUE]

Value(v, ub) == [val |-> v, ub |-> ub, threw |-> FALSE]

\* mutant of Divide: the division is made without the test for zero
DivideUnchecked(leftVal, rightVal) ==
    IF rightVal = 0 THEN Value(0, TRUE)
    ELSE IF leftVal = INT_MIN /\ rightVal = -1 THEN Value(INT_MIN, TRUE)
    ELSE Value(TruncDiv(leftVal, rightVal), FALSE)

\* case '/' of OperatorNode::evaluate
Divide(leftVal, rightVal) ==
    IF rightVal # 0
    THEN IF leftVal = INT_MIN /\ rightVal = -1
         THEN Value(INT_MIN, TRUE)
         ELSE Value(TruncDiv(leftVal, rightVal), FALSE)
    ELSE Value(INT_MAX, FALSE)

\* the switch of OperatorNode::evaluate
Apply(oper, leftVal, rightVal) ==
    CASE oper = "+" -> Value(WrapAdd(leftVal, rightVal), AddOverflows(leftVal, rightVal))
      [] oper = "-" -> Value(WrapSub(leftVal, rightVal), SubOverflows(leftVal, rightVal))
      [] oper = "*" -> Value(WrapMul(leftVal, rightVal), MulOverflows(leftVal, rightVal))
      [] oper = "/" -> Divide(leftVal, rightVal)
      [] OTHER -> NoValue

\* NumberNode::evaluate and OperatorNode::evaluate, on the node at address p
RECURSIVE evaluate(_, _)
evaluate(h, p) ==
    IF h[p].kind = "number" THEN Value(h[p].value, FALSE)
    ELSE LET leftVal == evaluate(h, h[p].left)
         IN  IF leftVal.threw THEN NoValue
             ELSE LET rightVal == evaluate(h, h[p].right)
                  IN  IF rightVal.threw THEN NoValue
                      ELSE LET r == Apply(h[p].oper, leftVal.val, rightVal.val)
                           IN  IF r.threw THEN NoValue
                               ELSE Value(r.val, r.ub \/ leftVal.ub \/ rightVal.ub)

\* mutant of Parenthesize: the parentheses are left out
NoParentheses(l, oper, r) == l \o <<oper>> \o r

\* OperatorNode::toString, given the renderings of the children
Parenthesize(l, oper, r) == <<"(">> \o l \o <<oper>> \o r \o <<")">>

\* NumberNode::toString and OperatorNode::toString
RECURSIVE toString(_, _)
toString(h, p) ==
    IF h[p].kind = "number" THEN to_string(h[p].value)
    ELSE Parenthesize(toString(h, h[p].left), h[p].oper, toString(h, h[p].right))

\* the nodes a call of evaluate or toString on p reads
RECURSIVE Reach(_, _)
Reach(h, p) ==
    IF h[p].kind = "number" THEN {p}
    ELSE {p} \cup Reach(h, h[p].left) \cup Reach(h, h[p].right)

\* delete p: ~OperatorNode deletes left and right, then the node goes
RECURSIVE Delete(_, _, _)
Delete(h, st, p) ==
    IF h[p].kind = "number"
    THEN [alive |-> st.alive \ {p}, freed |-> Append(st.freed, p)]
    ELSE LET l == Delete(h, st, h[p].left)
             r == Delete(h, l, h[p].right)
         IN  [alive |-> r.alive \ {p}, freed |-> Append(r.freed, p)]

(***************************************************************************)
(* The enumerator.                                                         *)
(***************************************************************************)
InBounds(ns, k) == k \in 0..(Len(ns) - 1)

\* mutant of NumsAt: the element before the one asked for
NumsAtOffByOne(ns, k, g) == IF InBounds(ns, k - 1) THEN ns[k] ELSE g

\* nums[k]; an index outside the vector reads whatever is there (g)
NumsAt(ns, k, g) == IF InBounds(ns, k) THEN ns[k + 1] ELSE g

\* sequencing: the statements in first are run before those in rest
AndThen(first, rest) == IF first.oob \in BOOLEAN THEN rest ELSE rest

\* for (char oper : OPERATORS) result.push_back(new OperatorNode(oper, left, right))
RECURSIVE OperLoop(_, _, _, _)
OperLoop(acc, left, right, o) ==
    IF o > Len(OPERATORS) THEN acc
    ELSE LET n == New(acc.heap, OperatorNode(OPERATORS[o], left, right))
         IN  OperLoop([acc EXCEPT !.heap = n.heap,
                                  !.result = Append(acc.result, n.ptr)],
                      left, right, o + 1)

\* for (ASTNode* right : rightExpressions), its iterations lo..hi in order
\* (the range is halved to keep the evaluation shallow; the order is lo, lo+1, ..)
RECURSIVE RightLoop(_, _, _, _, _)
RightLoop(acc, left, rightExpressions, lo, hi) ==
    IF lo > hi THEN acc
    ELSE IF lo = hi THEN OperLoop(acc, left, rightExpressions[lo], 1)
    ELSE LET mid == (lo + hi) \div 2
             first == RightLoop(acc, left, rightExpressions, lo, mid)
         IN  AndThen(first, RightLoop(first, left, rightExpressions, mid + 1, hi))

\* for (ASTNode* left : leftExpressions), its iterations lo..hi in order
RECURSIVE LeftLoop(_, _, _, _, _)
LeftLoop(acc, leftExpressions, rightExpressions, lo, hi) ==
    IF lo > hi THEN acc
    ELSE IF lo = hi
    THEN RightLoop(acc, leftExpressions[lo], rightExpressions,
                   1, Len(rightExpressions))
    ELSE LET mid == (lo + hi) \div 2
             first == LeftLoop(acc, leftExpressions, rightExpressions, lo, mid)
         IN  AndThen(first, LeftLoop(first, leftExpressions, rightExpressions, mid + 1, hi))

\* mutant of Combine: the right trees in the outer loop, the left ones inside
RECURSIVE InnerLeftLoop(_, _, _, _, _)
InnerLeftLoop(acc, leftExpressions, right, lo, hi) ==
    IF lo > hi THEN acc
    ELSE IF lo = hi THEN OperLoop(acc, leftExpressions[lo], right, 1)
    ELSE LET mid == (lo + hi) \div 2
             first == InnerLeftLoop(acc, leftExpressions, right, lo, mid)
         IN  AndThen(first, InnerLeftLoop(first, leftExpressions, right, mid + 1, hi))

RECURSIVE OuterRightLoop(_, _, _, _, _)
OuterRightLoop(acc, leftExpressions, rightExpressions, lo, hi) ==
    IF lo > hi THEN acc
    ELSE IF lo = hi
    THEN InnerLeftLoop(acc, leftExpressions, rightExpressions[lo],
                       1, Len(leftExpressions))
    ELSE LET mid == (lo + hi) \div 2
             first == OuterRightLoop(acc, leftExpressions, rightExpressions, lo, mid)
         IN  AndThen(first,
                     OuterRightLoop(first, leftExpressions, rightExpressions, mid + 1, hi))

CombineRightOuter(acc, leftExpressions, rightExpressions) ==
    OuterRightLoop(acc, leftExpressions, rightExpressions, 1, Len(rightExpressions))

\* the three nested loops that combine one split's left and right trees
Combine(acc, leftExpressions, rightExpressions) ==
    LeftLoop(acc, leftExpressions, rightExpressions, 1, Len(leftExpressions))

\* mutant of IsBaseCase: an inverted range taken for a single element
IsBaseCaseOrInverted(s, e) == s >= e

\* the base case test of generateExpressions
IsBaseCase(s, e) == s = e

\* the right sub-range of split i
RightStart(i) == i + 1

\* generateExpressions(nums, start, end), run on free store h
RECURSIVE generateExpressions(_, _, _, _, _)
RECURSIVE SplitLoop(_, _, _, _, _, _)
generateExpressions(ns, h, s, e, g) ==
    IF IsBaseCase(s, e)
    THEN LET n == New(h, NumberNode(NumsAt(ns, s, g)))
         IN  [heap |-> n.heap, result |-> <<n.ptr>>, oob |-> ~InBounds(ns, s)]
    ELSE SplitLoop(ns, [heap |-> h, result |-> <<>>, oob |-> FALSE], s, e, g, s)

\* for (int i = start; i < end; i++)
SplitLoop(ns, acc, s, e, g, i) ==
    IF ~(i < e) THEN acc
    ELSE LET leftExpressions == generateExpressions(ns, acc.heap, s, i, g)
             rightExpressions ==
                 generateExpressions(ns, leftExpressions.heap, RightStart(i), e, g)
             combined ==
                 Combine([heap |-> rightExpressions.heap, result |-> acc.result,
                          oob |-> acc.oob \/ leftExpressions.oob \/ rightExpressions.oob],
                         leftExpressions.result, rightExpressions.result)
         IN  AndThen(leftExpressions,
                     AndThen(rightExpressions,
                             AndThen(combined,
                                     SplitLoop(ns, combined, s, e, g, i + 1))))

\* mutant of SizeMinusOne: the size itself is passed as the last index
SizeItself(n) == n

\* (int)(nums.size() - 1): the size_t difference wraps to 2^64 - 1 for an
\* empty vector, and its conversion to int keeps the low 32 bits, -1
SizeMinusOne(n) == IF n = 0 THEN -1 ELSE n - 1

\* what an out-of-bounds read can lead to
ReadOutcomes(oob) == IF oob THEN {"garbage", "crash"} ELSE {"ok"}

\* what an evaluation with signed overflow can lead to
EvalOutcomes(ub) == IF ub THEN {"wrap", "crash"} ELSE {"ok"}

\* mutant of Matches: values above the target are kept too
MatchesAtLeast(val, t) == val >= t

\* the test of the filtering loop
Matches(val, t) == val = t

\* mutant of AfterEvaluation: "delete expression;" is not commented out
DeleteExpression(h, st, p) == Delete(h, st, p)

\* the statement after the test in the filtering loop ("// delete expression;")
AfterEvaluation(h, st, p) == st

(***************************************************************************)
(* The state machine.                                                      *)
(***************************************************************************)
Init ==
    /\ nums \in Inputs
    /\ target \in Targets
    /\ callee = "none"
    /\ start = 0
    /\ end = 0
    /\ heap = <<>>
    /\ alive = {}
    /\ freed = <<>>
    /\ expressions = <<>>
    /\ idx = 1
    /\ result = <<>>
    /\ pc = "start"

\* the call of the enumerator and what it leaves behind
Enumerate(s, e, next) ==
    \E g \in Garbage :
        LET r == generateExpressions(nums, heap, s, e, g)
        IN  \E outcome \in ReadOutcomes(r.oob) :
                /\ start' = s
                /\ end' = e
                /\ IF outcome = "crash"
                   THEN /\ pc' = "crashed"
                        /\ UNCHANGED <<heap, alive, expressions>>
                   ELSE /\ pc' = next
                        /\ heap' = r.heap
                        /\ alive' = alive \cup ((Len(heap) + 1)..Len(r.heap))
                        /\ expressions' = r.result
                /\ UNCHANGED <<nums, target, freed, idx, result>>

\* findExpressions up to the first iteration of the filtering loop
findExpressions ==
    /\ pc = "start"
    /\ callee' = "findExpressions"
    /\ Enumerate(0, SizeMinusOne(Len(nums)), "filter")

\* one iteration of the loop of the filtering overload
FilterStep ==
    /\ pc = "filter"
    /\ idx <= Len(expressions)
    /\ LET expression == expressions[idx]
           v == evaluate(heap, expression)
       IN  \E outcome \in EvalOutcomes(v.ub) :
               IF v.threw THEN
                   /\ pc' = "threw"
                   /\ UNCHANGED <<alive, freed, idx, result>>
               ELSE IF outcome = "crash" THEN
                   /\ pc' = "crashed"
                   /\ UNCHANGED <<alive, freed, idx, result>>
               ELSE
                   /\ result' = IF Matches(v.val, target)
                                THEN Append(result, toString(heap, expression))
                                ELSE result
                   /\ LET st == AfterEvaluation(heap, [alive |-> alive, freed |-> freed],
                                                expression)
                      IN  /\ alive' = st.alive
                          /\ freed' = st.freed
                   /\ idx' = idx + 1
                   /\ pc' = "filter"
    /\ UNCHANGED <<nums, target, callee, start, end, heap, expressions>>

\* the loop is over: findExpressions returns result
Return ==
    /\ pc = "filter"
    /\ idx > Len(expressions)
    /\ pc' = "done"
    /\ UNCHANGED <<nums, target, callee, start, end, heap, alive, freed,
                   expressions, idx, result>>

\* a direct call generateExpressions(nums, s, e)
CallGenerate ==
    /\ pc = "start"
    /\ callee' = "generateExpressions"
    /\ \E s \in Indices, e \in Indices :
          /\ \/ s > e
             \/ InBounds(nums, s) /\ InBounds(nums, e)
             \/ e - s < MaxOutside
          /\ Enumerate(s, e, "returned")

Next == findExpressions \/ FilterStep \/ Return \/ CallGenerate

Spec == Init /\ [][Next]_vars

(***************************************************************************)
(* Definitions used to state the properties.                               *)
(***************************************************************************)
\* the fixed fully parenthesized grammar:
\*   expr ::= number | "(" expr op expr ")"     op ::= + | - | * | /
\*   number ::= ["-"] digit+
GrammarOps == {"+", "-", "*", "/"}

IsDigit(c) == \E d \in 1..10 : DigitChars[d] = c

DigitVal(c) == (CHOOSE d \in 1..10 : DigitChars[d] = c) - 1

RECURSIVE ParseDigits(_, _, _, _)
ParseDigits(s, pos, acc, neg) ==
    IF pos <= Len(s) /\ IsDigit(s[pos])
    THEN ParseDigits(s, pos + 1,
                     IF neg THEN acc * 10 - DigitVal(s[pos])
                            ELSE acc * 10 + DigitVal(s[pos]),
                     neg)
    ELSE [val |-> acc, next |-> pos]

ParseFail == [ok |-> FALSE, heap |-> <<>>, ptr |-> 0, next |-> 0]

\* parses one expr of s from position pos, building its tree on store h
RECURSIVE Parse(_, _, _)
Parse(h, s, pos) ==
    IF pos > Len(s) THEN ParseFail
    ELSE IF s[pos] = "("
    THEN LET l == Parse(h, s, pos + 1)
         IN  IF ~l.ok \/ l.next > Len(s) THEN ParseFail
             ELSE IF s[l.next] \notin GrammarOps THEN ParseFail
             ELSE LET r == Parse(l.heap, s, l.next + 1)
                  IN  IF ~r.ok \/ r.next > Len(s) THEN ParseFail
                      ELSE IF s[r.next] # ")" THEN ParseFail
                      ELSE LET n == New(r.heap, OperatorNode(s[l.next], l.ptr, r.ptr))
                           IN  [ok |-> TRUE, heap |-> n.heap, ptr |-> n.ptr,
                                next |-> r.next + 1]
    ELSE LET neg == s[pos] = "-"
             first == IF neg THEN pos + 1 ELSE pos
         IN  IF first > Len(s) THEN ParseFail
             ELSE IF ~IsDigit(s[first]) THEN ParseFail
             ELSE LET d == ParseDigits(s, first, 0, neg)
                      n == New(h, NumberNode(d.val))
                  IN  [ok |-> TRUE, heap |-> n.heap, ptr |-> n.ptr, next |-> d.next]

\* the whole of s is one expr
ParseAll(s) ==
    LET t == Parse(<<>>, s, 1)
    IN  IF t.ok /\ t.next = Len(s) + 1 THEN t ELSE ParseFail

\* the values of the leaves of the tree at p, left to right
RECURSIVE Leaves(_, _)
Leaves(h, p) ==
    IF h[p].kind = "number" THEN <<h[p].value>>
    ELSE Leaves(h, h[p].left) \o Leaves(h, h[p].right)

\* the tree at p as a value, without its addresses
RECURSIVE Tree(_, _)
Tree(h, p) ==
    IF h[p].kind = "number" THEN <<"number", h[p].value>>
    ELSE <<"operator", h[p].oper, Tree(h, h[p].left), Tree(h, h[p].right)>>

Range(f) == {f[x] : x \in DOMAIN f}

ValidRange(ns, s, e) == InBounds(ns, s) /\ InBounds(ns, e) /\ s <= e

\* C(s, e) of the count property
RECURSIVE CountTrees(_, _)
RECURSIVE CountSum(_, _, _)
CountTrees(s, e) == IF s = e THEN 1 ELSE CountSum(s, e, s)

CountSum(s, e, i) ==
    IF i >= e THEN 0
    ELSE CountTrees(s, i) * CountTrees(i + 1, e) * 4 + CountSum(s, e, i + 1)

\* the trees that match the target, in enumeration order
MatchingTrees ==
    SelectSeq(expressions, LAMBDA p : evaluate(heap, p).val = target)

InFind == callee = "findExpressions"

InGenerate == callee = "generateExpressions"

(***************************************************************************)
(* C1: every string returned by findExpressions(S, T), S non-empty, parses *)
(* back to a tree whose leaves, left to right, are exactly S[0..n-1] and   *)
(* whose evaluate() result is T.                                           *)
(***************************************************************************)
C1_LeavesAndValue ==
    (InFind /\ nums # <<>>) =>
        \A k \in 1..Len(result) :
            LET t == ParseAll(result[k])
            IN  /\ t.ok
                /\ Leaves(t.heap, t.ptr) = nums
                /\ ~evaluate(t.heap, t.ptr).threw
                /\ evaluate(t.heap, t.ptr).val = target

C1_Witness ==
    InFind /\ pc = "done" /\ Len(nums) = 3 /\ Len(result) >= 1

(***************************************************************************)
(* C2: findExpressions calls the enumerator once over [0, n-1] and returns *)
(* exactly the renderings of the enumerated trees whose evaluate() equals  *)
(* the target, one entry per matching tree, in enumeration order, with no  *)
(* deduplication; no match gives the empty sequence, not a failure.        *)
(***************************************************************************)
C2_ExactlyTheMatches ==
    /\ (InFind /\ nums # <<>>) => start = 0 /\ end = Len(nums) - 1
    /\ (InFind /\ nums # <<>> /\ (pc = "done" \/ (pc = "filter" /\ idx = 1))) =>
          LET once == generateExpressions(nums, <<>>, 0, Len(nums) - 1, 0)
          IN  heap = once.heap /\ expressions = once.result
    /\ (InFind /\ pc = "done") =>
          /\ Len(result) = Len(MatchingTrees)
          /\ \A j \in 1..Len(result) : result[j] = toString(heap, MatchingTrees[j])
    /\ InFind => pc \in {"filter", "done", "crashed"}

C2_Witness ==
    /\ InFind /\ pc = "done"
    /\ Len(result) >= 2 /\ Len(result) < Len(expressions)
    /\ \E j \in 1..Len(MatchingTrees), k \in 1..Len(MatchingTrees) :
          /\ j # k
          /\ evaluate(heap, MatchingTrees[j]).val = evaluate(heap, MatchingTrees[k]).val

(***************************************************************************)
(* C3: for start < end the trees are emitted with the split index i        *)
(* ascending from start to end-1; within a split the left trees of         *)
(* [start, i] in their generation order (outer loop), the right trees of   *)
(* [i+1, end] in theirs (inner loop), and the operators + - * / innermost: *)
(* position k is fixed by (i, left index, right index, operator index) in  *)
(* lexicographic order.                                                    *)
(***************************************************************************)
DeclaredOrder == <<"+", "-", "*", "/">>

SplitBlock(s, e, i) ==
    LET L == generateExpressions(nums, <<>>, s, i, 0)
        R == generateExpressions(nums, <<>>, i + 1, e, 0)
        nR == Len(R.result)
    IN  [q \in 1..(Len(L.result) * nR * 4) |->
            <<"operator",
              DeclaredOrder[((q - 1) % 4) + 1],
              Tree(L.heap, L.result[(((q - 1) \div 4) \div nR) + 1]),
              Tree(R.heap, R.result[(((q - 1) \div 4) % nR) + 1])>>]

RECURSIVE LexOrder(_, _, _)
LexOrder(s, e, i) ==
    IF i >= e THEN <<>> ELSE SplitBlock(s, e, i) \o LexOrder(s, e, i + 1)

C3_EnumerationOrder ==
    (InGenerate /\ pc = "returned" /\ ValidRange(nums, start, end) /\ start < end) =>
        [k \in 1..Len(expressions) |-> Tree(heap, expressions[k])]
            = LexOrder(start, end, start)

C3_Witness ==
    /\ InGenerate /\ pc = "returned" /\ ValidRange(nums, start, end)
    /\ end - start = 3
    /\ Cardinality(Range(nums)) >= 2

(***************************************************************************)
(* C4: for a valid range the number of trees returned is C(start, end),    *)
(* C(s, s) = 1 (one literal holding nums[s]) and                           *)
(* C(s, e) = sum over i in [s, e) of C(s, i) * C(i+1, e) * 4; it depends   *)
(* on the length of the range only.                                        *)
(***************************************************************************)
C4_TreeCount ==
    /\ (InGenerate /\ pc = "returned" /\ ValidRange(nums, start, end)) =>
          /\ Len(expressions) = CountTrees(start, end)
          /\ Len(expressions) = CountTrees(0, end - start)
          /\ start = end =>
                heap[expressions[1]] = NumberNode(nums[start + 1])
    /\ (InFind /\ nums # <<>> /\ pc # "crashed") =>
          Len(expressions) = CountTrees(0, Len(nums) - 1)

C4_Witness ==
    /\ InGenerate /\ pc = "returned" /\ ValidRange(nums, start, end)
    /\ Len(expressions) = 32

(***************************************************************************)
(* C5: every returned string is the fully parenthesized rendering of its   *)
(* tree: decimal literals, "(" left op right ")" for an operator node, no  *)
(* spaces; findExpressions([2, 3, 4], 20) contains "((2+3)*4)" and no      *)
(* string whose tree evaluates to anything but 20.                         *)
(***************************************************************************)
C5_Scenario == <<"(", "(", "2", "+", "3", ")", "*", "4", ")">>

C5_FullyParenthesized ==
    /\ (InFind /\ pc = "done") =>
          \A j \in 1..Len(result) :
              LET t == ParseAll(result[j])
              IN  /\ " " \notin Range(result[j])
                  /\ t.ok
                  /\ j <= Len(MatchingTrees)
                  /\ Tree(t.heap, t.ptr) = Tree(heap, MatchingTrees[j])
                  /\ heap[MatchingTrees[j]].kind = "operator" =>
                        /\ result[j][1] = "("
                        /\ result[j][Len(result[j])] = ")"
    /\ (InFind /\ pc = "done" /\ nums = <<2, 3, 4>> /\ target = 20) =>
          /\ C5_Scenario \in Range(result)
          /\ \A j \in 1..Len(result) :
                LET t == ParseAll(result[j])
                IN  t.ok /\ evaluate(t.heap, t.ptr).val = 20

C5_Witness ==
    /\ InFind /\ pc = "done" /\ nums = <<2, 3, 4>> /\ target = 20
    /\ C5_Scenario \in Range(result)

(***************************************************************************)
(* C6: evaluate() on a division node whose right operand evaluates to zero *)
(* returns INT_MAX instead of failing, no exception is thrown during       *)
(* enumeration and filtering, and findExpressions([5, 0], INT_MAX)         *)
(* contains "(5/0)".                                                       *)
(***************************************************************************)
C6_Scenario == <<"(", "5", "/", "0", ")">>

C6_DivisionByZeroSentinel ==
    /\ (pc \in {"filter", "returned"} /\ idx = 1) =>
          \A p \in 1..Len(heap) :
              (/\ heap[p].kind = "operator"
               /\ heap[p].oper = "/"
               /\ evaluate(heap, heap[p].right).val = 0) =>
                  /\ ~evaluate(heap, p).threw
                  /\ evaluate(heap, p).val = INT_MAX
                  /\ evaluate(heap, p).ub =
                        (\/ evaluate(heap, heap[p].left).ub
                         \/ evaluate(heap, heap[p].right).ub)
    /\ pc # "threw"
    /\ (InFind /\ pc = "done" /\ nums = <<5, 0>> /\ target = INT_MAX) =>
          C6_Scenario \in Range(result)

C6_Witness ==
    /\ InFind /\ pc = "done" /\ nums = <<5, 0>> /\ target = INT_MAX
    /\ result = <<C6_Scenario>>

(***************************************************************************)
(* C7 as stated: findExpressions on an empty sequence ends in a failure    *)
(* (EmptyInput); it does not return an empty result as a success.          *)
(***************************************************************************)
C7_EmptyInputFails ==
    ~(InFind /\ nums = <<>> /\ pc = "done")

(***************************************************************************)
(* C7 as amended: findExpressions on an empty sequence reports no failure: *)
(* the enumerator is called over [0, -1], builds no tree, and the call     *)
(* returns the empty result sequence.                                      *)
(***************************************************************************)
C7_EmptyInputReturnsEmpty ==
    (InFind /\ nums = <<>>) =>
        /\ pc \in {"filter", "done"}
        /\ start = 0 /\ end = -1
        /\ expressions = <<>>
        /\ heap = <<>>
        /\ result = <<>>

C7_Witness ==
    InFind /\ nums = <<>> /\ pc = "done" /\ result = <<>>

(***************************************************************************)
(* C8 as stated: generateExpressions called with an invalid range (start > *)
(* end, or an index outside 0..length-1) fails with InvalidRange; it does  *)
(* not return a set of trees.                                              *)
(***************************************************************************)
C8_InvalidRangeFails ==
    ~(InGenerate /\ ~ValidRange(nums, start, end) /\ pc = "returned")

(***************************************************************************)
(* C8 as amended: generateExpressions called with start > end raises no    *)
(* condition: it returns the empty set of trees and builds no node; the    *)
(* indices are not clamped.                                                *)
(***************************************************************************)
C8_InvertedRangeReturnsEmpty ==
    (InGenerate /\ start > end) =>
        /\ pc = "returned"
        /\ expressions = <<>>
        /\ heap = <<>>

C8_Witness ==
    InGenerate /\ start > end /\ pc = "returned" /\ nums # <<>> /\ InBounds(nums, start)

(***************************************************************************)
(* C9: no node is the child of two different operator nodes: every         *)
(* operator node exclusively owns its left and right children.             *)
(***************************************************************************)
C9_NoSharedChildren ==
    \A a \in 1..Len(heap), b \in 1..Len(heap) :
        (a # b /\ heap[a].kind = "operator" /\ heap[b].kind = "operator") =>
            {heap[a].left, heap[a].right} \cap {heap[b].left, heap[b].right} = {}

(***************************************************************************)
(* C10: whenever evaluate() or toString() is invoked on a tree during a    *)
(* findExpressions query, every node reachable from its root is alive, and *)
(* no node is destroyed twice.                                             *)
(***************************************************************************)
C10_NoUseAfterDestroy ==
    /\ (pc = "filter" /\ idx <= Len(expressions)) =>
          Reach(heap, expressions[idx]) \subseteq alive
    /\ \A j \in 1..Len(freed), k \in 1..Len(freed) : freed[j] = freed[k] => j = k
    /\ alive \cap Range(freed) = {}

C10_Witness ==
    /\ pc = "filter" /\ idx > 1 /\ idx <= Len(expressions)
    /\ heap[expressions[idx]].kind = "operator"
    /\ heap[expressions[idx]].left = heap[expressions[idx - 1]].left

====
